---------------------------- MODULE Spec2Model ----------------------------
(***************************************************************************)
(* A model of the show scraper (src/scraper.py): the idempotent writer     *)
(* save_file, the shared SPONSORS / PARTICIPANTS registries and their      *)
(* flush, the chapters retry loop, and the run coordinator main() with     *)
(* its worker pool.                                                        *)
(*                                                                         *)
(* Four specifications share the state:                                    *)
(*   SpecWriter    one thread calling save_file on a small file system     *)
(*   SpecSponsors  one thread applying sponsor updates (scraper.py:117)    *)
(*   SpecChapters  one run of get_podcast_chapters, attempt by attempt     *)
(*   Spec          main(): the shows in turn, the episode tasks of a show  *)
(*                 interleaved, then the registry flush                    *)
(***************************************************************************)
EXTENDS Integers, Sequences, FiniteSets, TLC

VARIABLES
    files,      \* the file system below Settings.DATA_DIR: path -> content
    dirs,       \* the directories that exist below Settings.DATA_DIR
    writer,     \* SpecWriter: the calls of save_file made so far
    SPONSORS,   \* the sponsor registry: JSON filename -> Sponsor
    updates,    \* SpecSponsors: the sponsor updates applied so far, in order
    chap,       \* SpecChapters: the frame of get_podcast_chapters
    scrape,     \* SpecScrape: the frame of parse_sponsors or parse_tags
    call,       \* SpecFunctions: the function called, its arguments, its result
    Overwrite_Existing, \* Settings.Overwrite_Existing, fixed for the run
    PARTICIPANTS,  \* the participant registry: filename -> Participant
    LOCK,       \* the process-wide Lock: the task holding it, or Unlocked
    main,       \* main(): where it stands, and the show it is at
    tasks,      \* the build_episode_file tasks of the show: index -> frame
    flush,      \* the process_and_serialize_object tasks: filename -> frame
    hist        \* what the run has done so far (for the properties only)

fsVars == <<files, dirs>>

\* What a run of main() leaves alone: the settings, and the state of the
\* single-threaded specifications.
otherVars == <<Overwrite_Existing, writer, updates, chap, scrape, call>>

(***************************************************************************)
(* The file system.  A path is the sequence of its components below        *)
(* Settings.DATA_DIR; a file's content is a record whose kind is "none"    *)
(* when the file does not exist.                                           *)
(***************************************************************************)
NoFile == [kind |-> "none"]

Exists_Never(fs, path) == FALSE

Exists(fs, path) == fs[path] # NoFile

\* Path.parent
Parent(path) == SubSeq(path, 1, Len(path) - 1)

\* The directories mkdir(parents=True) makes sure of: every ancestor of path.
Ancestors(path) == { SubSeq(path, 1, n) : n \in 1..(Len(path) - 1) }

\* save_file, line 457: the skip decision.
SaveFileSkips_NeverSkips(fs, path, overwrite) == FALSE

SaveFileSkips(fs, path, overwrite) == ~overwrite /\ Exists(fs, path)

\* save_file, line 461: file_path.parent.mkdir(parents=True, exist_ok=True)
MkdirParents(ds, path) == ds \cup Ancestors(path)

\* save_file, lines 462-463: open(file_path, mode) and write(content).
\* open() creates or truncates the file; it needs the parent directory.
WriteFile(fs, path, content) == [fs EXCEPT ![path] = content]

\* save_file as one thread runs it: the new file system, the new directory
\* set and the returned flag.
save_file_Overwrites(fs, ds, path, content, overwrite) ==
    [files |-> WriteFile(fs, path, content),
     dirs  |-> MkdirParents(ds, path),
     ret   |-> TRUE]

save_file(fs, ds, path, content, overwrite) ==
    IF SaveFileSkips(fs, path, overwrite)
    THEN [files |-> fs, dirs |-> ds, ret |-> FALSE]
    ELSE [files |-> WriteFile(fs, path, content),
          dirs  |-> MkdirParents(ds, path),
          ret   |-> TRUE]

(***************************************************************************)
(* SpecWriter: successive calls of save_file by one thread.                *)
(***************************************************************************)
MaxCalls == 3

WriterPaths == { <<"content", "show", "lup", "0001.md">>,
                 <<"content", "sponsors", "linode.com-lup.md">> }

WriterContents == { [kind |-> "text", body |-> "a"],
                    [kind |-> "text", body |-> "b"] }

WriterDirs == UNION { Ancestors(p) : p \in WriterPaths }

\* A file system the program can start from: every file has its directories.
WriterInit ==
    /\ files \in [WriterPaths -> WriterContents \cup {NoFile}]
    /\ dirs \in SUBSET WriterDirs
    /\ \A p \in WriterPaths : Exists(files, p) => Ancestors(p) \subseteq dirs
    /\ \A d \in dirs : Len(d) > 1 => Parent(d) \in dirs
    /\ writer = << >>

\* One call: the record keeps the arguments, what the path held before the
\* call, and what the call returned.
WriterCall(path, content, overwrite) ==
    LET r == save_file(files, dirs, path, content, overwrite) IN
    /\ Len(writer) < MaxCalls
    /\ files' = r.files
    /\ dirs' = r.dirs
    /\ writer' = Append(writer, [path      |-> path,
                                 content   |-> content,
                                 overwrite |-> overwrite,
                                 before    |-> files[path],
                                 dirsBefore |-> dirs,
                                 after     |-> r.files[path],
                                 dirsAfter |-> r.dirs,
                                 ret       |-> r.ret])

WriterNext ==
    \E path \in WriterPaths, content \in WriterContents, overwrite \in BOOLEAN :
        WriterCall(path, content, overwrite)

(***************************************************************************)
(* The sponsor registry, scraper.py:117                                    *)
(*   SPONSORS.update([(key, sponsor) for key, sponsor in sponsors.items()  *)
(*       if int(sponsor.episode or -1)                                     *)
(*          > SPONSORS.get(key, SimpleNamespace(episode=-1)).episode])     *)
(* A registry is a function from the keys present to Sponsor records       *)
(* [episode, src]: src stands for the rest of the record (shortname,       *)
(* title, description, links), which depends on the page it was scraped    *)
(* from.                                                                   *)
(***************************************************************************)
MaxEp == 2

Keys == {"linode.com-lup.md", "tailscale.com-lup.md"}

\* Sponsor.episode when the parser found none (Python's None).
NoEpisode == -2

EpisodeValues == {NoEpisode} \cup (0..MaxEp)

Sources == {"a", "b"}

Sponsors == [episode : EpisodeValues, src : Sources]

EmptyRegistry == [k \in {} |-> [episode |-> 0, src |-> "a"]]

\* int(sponsor.episode or -1): None and 0 are both falsy.
EpisodeOrDefault_KeepsZero(episode) ==
    IF episode = NoEpisode THEN -1 ELSE episode

EpisodeOrDefault(episode) ==
    IF episode = NoEpisode \/ episode = 0 THEN -1 ELSE episode

\* SPONSORS.get(key, SimpleNamespace(episode=-1)).episode
RegisteredEpisode(registry, key) ==
    IF key \in DOMAIN registry THEN registry[key].episode ELSE -1

\* The comparison of the comprehension's filter.
IsNewer_Always(registry, key, sponsor) == TRUE

IsNewer_OrEqual(registry, key, sponsor) ==
    EpisodeOrDefault(sponsor.episode) >= RegisteredEpisode(registry, key)

IsNewer(registry, key, sponsor) ==
    EpisodeOrDefault(sponsor.episode) > RegisteredEpisode(registry, key)

\* The list the comprehension builds from the page's sponsors: the pairs that
\* are newer than what the registry holds when it is read.
NewerSponsors(registry, sponsors) ==
    LET keep == { k \in DOMAIN sponsors : IsNewer(registry, k, sponsors[k]) }
    IN  [k \in keep |-> sponsors[k]]

\* dict.update with a list of pairs (also PARTICIPANTS.update, line 346).
DictUpdate(registry, pairs) == pairs @@ registry

\* Line 117 as one thread runs it.
UpdateSponsors(registry, sponsors) ==
    DictUpdate(registry, NewerSponsors(registry, sponsors))

(***************************************************************************)
(* SpecSponsors: one thread applying sponsor updates one after another.    *)
(* Each update is the sponsors dict of one page, holding one key.          *)
(***************************************************************************)
MaxUpdates == 3

OneSponsor(key, sponsor) == [k \in {key} |-> sponsor]

SponsorsInit ==
    /\ SPONSORS = EmptyRegistry
    /\ updates = << >>

ApplyUpdate(key, sponsor) ==
    /\ Len(updates) < MaxUpdates
    /\ SPONSORS' = UpdateSponsors(SPONSORS, OneSponsor(key, sponsor))
    /\ updates' = Append(updates, [key |-> key, sponsor |-> sponsor])

\* The updates: every record for one key, and one record for a second key
\* that arrives between them.
UpdatesOf(key) ==
    IF key = "linode.com-lup.md" THEN Sponsors ELSE {[episode |-> 1, src |-> "a"]}

SponsorsNext ==
    \E key \in Keys : \E sponsor \in UpdatesOf(key) : ApplyUpdate(key, sponsor)

\* The registry after applying the first n updates of seq in order, from
\* empty.
RECURSIVE ApplyFirst(_, _)
ApplyFirst(seq, n) ==
    IF n = 0 THEN EmptyRegistry
    ELSE UpdateSponsors(ApplyFirst(seq, n - 1),
                        OneSponsor(seq[n].key, seq[n].sponsor))

ApplyAll(seq) == ApplyFirst(seq, Len(seq))

Orders(n) == { f \in [1..n -> 1..n] : \A i, j \in 1..n : f[i] = f[j] => i = j }

Reordered(seq, f) == [i \in 1..Len(seq) |-> seq[f[i]]]

SetMax(S) == CHOOSE m \in S : \A x \in S : x <= m

(***************************************************************************)
(* get_podcast_chapters, scraper.py:51-83.  The frame of one call:         *)
(*   pc        where the call stands                                       *)
(*   chapters  the argument: NoChapters (the item has no podcast:chapters) *)
(*             or the element with its url                                 *)
(*   i         iterations of `for _ in range(Settings.Retry_Count)` begun  *)
(*   response  the local `response`: NoResponse (None) until a request     *)
(*             returns                                                     *)
(*   requests  calls of requests.get that reached the network              *)
(*   trace     what each request ended in, in order                        *)
(*   log       the levels logged                                           *)
(*   outcome   "running", "returned" (value: the chapters or "None") or    *)
(*             "raised" (value: the exception)                             *)
(***************************************************************************)
Retry_Count == 3

NoChapters == [kind |-> "none"]

ChaptersArgs == { NoChapters, [kind |-> "chapters", url |-> "https://example.org/chapters.json"] }

NoResponse == [kind |-> "none"]

\* The bodies a chapters URL may answer with; only ValidBodies pass
\* Chapters.model_validate_json.
Bodies == {"", "<html>", "{\"version\": \"1.2.0\", \"chapters\": []}"}

ValidBodies == {"{\"version\": \"1.2.0\", \"chapters\": []}"}

Responses == [kind : {"response"}, status : {200, 404}, text : Bodies]

\* What one requests.get ends in: a response, or ChunkedEncodingError.
ChunkedEncodingError == [kind |-> "ChunkedEncodingError"]

GetOutcomes == Responses \cup {ChunkedEncodingError}

ChaptersFrame(chapters) ==
    [pc |-> "for", chapters |-> chapters, i |-> 0, response |-> NoResponse,
     requests |-> 0, trace |-> << >>, log |-> {}, outcome |-> "running",
     value |-> "None"]

Return(st, value) ==
    [st EXCEPT !.pc = "done", !.outcome = "returned", !.value = value]

Raise(st, exception) ==
    [st EXCEPT !.pc = "done", !.outcome = "raised", !.value = exception]

\* Line 57: the loop header.
ChaptersFor(st) ==
    IF st.i < Retry_Count
    THEN [st EXCEPT !.pc = "get", !.i = @ + 1]
    ELSE [st EXCEPT !.pc = "else"]

\* Line 59: requests.get(chapters.url, ...).  chapters.url on None raises
\* AttributeError, caught at line 74; ChunkedEncodingError is caught at
\* line 68 and the loop continues.
ChaptersGet(st, got) ==
    IF st.chapters = NoChapters THEN Return(st, "None")
    ELSE IF got = ChunkedEncodingError
    THEN [st EXCEPT !.pc = "for", !.requests = @ + 1,
                    !.trace = Append(@, "chunked"),
                    !.log = @ \cup {"warning: will retry"}]
    ELSE [st EXCEPT !.pc = "check", !.requests = @ + 1, !.response = got]

\* Lines 60-66 and their handlers at 71-79.
ChaptersCheck_RetriesHttpError(st) ==
    IF st.response.status >= 400
    THEN [st EXCEPT !.pc = "for", !.trace = Append(@, "http_error")]
    ELSE IF st.response.text = ""
    THEN [st EXCEPT !.pc = "for", !.trace = Append(@, "empty")]
    ELSE IF st.response.text \notin ValidBodies
    THEN Return([st EXCEPT !.trace = Append(@, "invalid"),
                           !.log = @ \cup {"warning: invalid chapters"}], "None")
    ELSE [st EXCEPT !.pc = "return", !.trace = Append(@, "valid")]

ChaptersCheck(st) ==
    IF st.response.status >= 400                       \* raise_for_status
    THEN Return([st EXCEPT !.trace = Append(@, "http_error")], "None")
    ELSE IF st.response.text = ""                      \* continue
    THEN [st EXCEPT !.pc = "for", !.trace = Append(@, "empty")]
    ELSE IF st.response.text \notin ValidBodies        \* ValidationError
    THEN Return([st EXCEPT !.trace = Append(@, "invalid"),
                           !.log = @ \cup {"warning: invalid chapters"}], "None")
    ELSE [st EXCEPT !.pc = "return", !.trace = Append(@, "valid")]   \* break

\* Line 81: the loop's else clause.
ChaptersElse(st) ==
    [st EXCEPT !.pc = "return", !.log = @ \cup {"error: unable to retrieve"}]

\* Line 83: return Chapters(**response.json()), outside the try.
ChaptersReturn(st) ==
    IF st.response = NoResponse THEN Raise(st, "AttributeError")
    ELSE IF st.response.text \notin ValidBodies THEN Raise(st, "JSONDecodeError")
    ELSE Return(st, st.response.text)

\* One step of the call; got is what the request of this step ends in.
ChaptersStep(st, got) ==
    CASE st.pc = "for"    -> ChaptersFor(st)
      [] st.pc = "get"    -> ChaptersGet(st, got)
      [] st.pc = "check"  -> ChaptersCheck(st)
      [] st.pc = "else"   -> ChaptersElse(st)
      [] st.pc = "return" -> ChaptersReturn(st)
      [] OTHER            -> st

(***************************************************************************)
(* SpecChapters: one call of get_podcast_chapters.                         *)
(***************************************************************************)
ChaptersInit == chap \in { ChaptersFrame(c) : c \in ChaptersArgs }

ChaptersRequest ==
    /\ chap.pc = "get"
    /\ \E got \in GetOutcomes : chap' = ChaptersStep(chap, got)

ChaptersLocal ==
    /\ chap.pc \in {"for", "check", "else", "return"}
    /\ chap' = ChaptersStep(chap, ChunkedEncodingError)

ChaptersNext == ChaptersRequest \/ ChaptersLocal

(***************************************************************************)
(* Configuration (config.yml) and feed items.                              *)
(***************************************************************************)
\* CONFIGURATION.shows, in the order of the file; dont_override holds the
\* episode file names the show exempts from overwriting.
Shows == << [slug |-> "lup", dont_override |-> {"0002.md"}],
            [slug |-> "ssh", dont_override |-> {}] >>

\* CONFIGURATION.data_dont_override: registry files never saved onto.
data_dont_override == {"tailscale.com-lup.md"}

\* CONFIGURATION.usernames_map, in the order of the file: canonical
\* username and the names it stands for.  A name is its sequence of
\* characters.
usernames_map == << [key |-> "chris", names |-> { <<"C", "h", "r", "i", "s">> }],
                    [key |-> "wes",   names |-> { <<"W", "e", "s">> }] >>

Host_Roles == {"host"}

Guest_Roles == {"guest"}

\* The sponsor keys the pages of a show can yield.
KeysOf(slug) == { "linode.com-" \o slug \o ".md", "tailscale.com-" \o slug \o ".md" }

AllKeys == UNION { KeysOf(Shows[s].slug) : s \in 1..Len(Shows) }

\* The feed entries of a run, over all its shows: at most MaxItems of them.
MaxItems == 2

NoImg == << >>

NoHref == ""

\* podcast:person elements: one host, as two feed entries may describe
\* them.  img is the URL split at its dots, so that the file extension is
\* its last part.
Persons == { [name |-> <<"C", "h", "r", "i", "s">>, role |-> "host",
              img  |-> <<"https://example", "org/chris", "jpg">>,
              href |-> "https://chrislas.com"],
             [name |-> <<"C", "h", "r", "i", "s">>, role |-> "host",
              img  |-> NoImg, href |-> NoHref] }

\* models/itunes.py, lines 19-23: the values the feed model accepts for
\* itunes:episodeType.
EPISODE_TYPES == {"Full", "Trailer", "Bonus"}

\* An item: its episode number (from podcast:episode or the title), its
\* podcast:person elements (one here) and its itunes:episodeType, which
\* the feeds of a whole run leave at its default (itunes.py, line 54).
Items == [ep : 1..MaxEp, persons : { <<p>> : p \in Persons },
          itunes_episodeType : {"Full"}]

Feeds == UNION { [1..n -> Items] : n \in 0..MaxItems }

\* f'{n:04}'
Digit == <<"0", "1", "2", "3", "4", "5", "6", "7", "8", "9">>

RECURSIVE Str(_)
Str(n) == IF n < 10 THEN Digit[n + 1] ELSE Str(n \div 10) \o Digit[(n % 10) + 1]

Pad4(n) ==
    IF n < 10 THEN "000" \o Str(n)
    ELSE IF n < 100 THEN "00" \o Str(n)
    ELSE IF n < 1000 THEN "0" \o Str(n)
    ELSE Str(n)

\* Line 91: the first key of usernames_map whose names hold the person's
\* name, else the name lower-cased with spaces replaced by hyphens.
Lower(c) ==
    CASE c = "C" -> "c" [] c = "W" -> "w" [] c = "J" -> "j" [] c = "B" -> "b"
      [] OTHER -> c

RECURSIVE Slug(_)
Slug(name) ==
    IF name = << >> THEN ""
    ELSE (IF Head(name) = " " THEN "-" ELSE Lower(Head(name))) \o Slug(Tail(name))

CanonicalUsername_LastKey(map, name) ==
    LET hits == { n \in 1..Len(map) : name \in map[n].names }
    IN  IF hits # {}
        THEN map[CHOOSE n \in hits : \A m \in hits : n >= m].key
        ELSE Slug(name)

CanonicalUsername(map, name) ==
    LET hits == { n \in 1..Len(map) : name \in map[n].names }
    IN  IF hits # {}
        THEN map[CHOOSE n \in hits : \A m \in hits : n <= m].key
        ELSE Slug(name)

\* With CONFIGURATION.usernames_map as config.yml gives it.
get_canonical_username(name) == CanonicalUsername(usernames_map, name)

(***************************************************************************)
(* Output file layout.                                                     *)
(***************************************************************************)
EpisodeFileName(padded) == padded \o ".md"

EpisodePath(slug, padded) == <<"content", "show", slug, EpisodeFileName(padded)>>

SponsorPath(filename) == <<"content", "sponsors", filename>>

PersonPath(filename) == <<"content", "people", filename>>

\* Line 344: images/people/<username>.<last dot part of the img URL>
AvatarRelPath(username, img) == <<"images", "people", username \o "." \o img[Len(img)]>>

AvatarPath(username, img) == <<"static">> \o AvatarRelPath(username, img)

PickPath == <<"data", "picks", "pick.yaml">>

Usernames == { get_canonical_username(p.name) : p \in Persons }

Paths ==
    { EpisodePath(Shows[s].slug, Pad4(n)) : s \in 1..Len(Shows), n \in 1..MaxEp }
    \cup { SponsorPath(k) : k \in AllKeys }
    \cup { PersonPath(u \o ".md") : u \in Usernames }
    \cup { AvatarPath(get_canonical_username(p.name), p.img) : p \in { q \in Persons : q.img # NoImg } }
    \cup { PickPath }

(***************************************************************************)
(* build_episode_file, scraper.py:157-229, as one worker thread runs it.   *)
(* A task's frame: pc, the item, the pairs its comprehension at line 117   *)
(* has built and not yet passed to SPONSORS.update, and how it ended.      *)
(* A step is what the thread does up to and including one access to the    *)
(* state the threads share (SPONSORS, PARTICIPANTS, the file system);      *)
(* what is local to the thread (requests, parsing) rides with the shared   *)
(* access that follows it.                                                 *)
(***************************************************************************)
\* What requests.get of the episode page and raise_for_status end in
\* (lines 97-98); "ConnectionError" stands for the failures of requests.get
\* that are neither HTTPError nor MissingSchema (connection failure,
\* timeout).
PageOutcomes == {"ok", "HTTPError", "MissingSchema", "ConnectionError"}

PageSource(i) == "page" \o Str(i)

\* SponsorParser(...).run(): the sponsors found on the page, each carrying
\* the episode number the parser was given.
SponsorParserRun(slug, episode_number, i) ==
    { [k \in ks |-> [episode |-> episode_number, src |-> PageSource(i)]] :
        ks \in SUBSET KeysOf(slug) }

\* How sp.run() ends: it returns the sponsors it found, or it raises, and
\* found is then what the strategy had collected before.
SponsorParserOutcomes(slug, episode_number, i) ==
    [raised : BOOLEAN, found : SponsorParserRun(slug, episode_number, i)]

\* Lines 109-115: the sponsors dict after the try statement.
ParsedSponsors_KeepsFound(out) == out.found

ParsedSponsors(out) == IF out.raised THEN EmptyRegistry ELSE out.found

\* The tags a page can carry, and how tag_parser.run() ends.
Tags == {"linux", "nixos"}

TagParserOutcomes == [raised : BOOLEAN, found : SUBSET Tags]

\* Lines 125 and 138-143: tags keeps its initial [] when run() raises.
ParsedTags(out) == IF out.raised THEN {} ELSE out.found

\* Sponsor.shortname of the sponsor registered under a key.
SponsorShortnames == {"linode.com", "tailscale.com"}

Shortname(key) ==
    CHOOSE n \in SponsorShortnames :
        \E sl \in 1..Len(Shows) : key = n \o "-" \o Shows[sl].slug \o ".md"

\* get_podcast_chapters run to its end on the outcomes its requests meet.
RECURSIVE ChaptersRun(_, _)
ChaptersRun(st, gots) ==
    IF st.pc = "done" THEN st
    ELSE IF st.pc = "get" /\ st.chapters # NoChapters
    THEN ChaptersRun(ChaptersStep(st, Head(gots)), Tail(gots))
    ELSE ChaptersRun(ChaptersStep(st, ChunkedEncodingError), gots)

ChaptersOutcomes ==
    { ChaptersRun(ChaptersFrame(c), gots).outcome :
        c \in ChaptersArgs, gots \in [1..Retry_Count -> GetOutcomes] }

\* Lines 181-208: tags, links and chapters.  parse_tags lets a connection
\* failure escape, get_podcast_chapters whatever line 83 raises.
EnrichOutcomes ==
    {"ok", "ConnectionError"} \cup
    (IF "raised" \in ChaptersOutcomes THEN {"ChaptersError"} ELSE {})

NoneStr == "None"

\* Lines 347-353.
Participant(person) ==
    LET canonical_username == get_canonical_username(person.name) IN
    [kind     |-> "participant",
     type     |-> IF person.role \in Host_Roles THEN "host" ELSE "guest",
     username |-> canonical_username,
     title    |-> person.name,
     homepage |-> IF person.href # NoHref THEN person.href ELSE NoneStr,
     avatar   |-> IF person.img # NoImg
                  THEN AvatarRelPath(canonical_username, person.img) ELSE << >>]

\* Line 339: the persons with a host or guest role.
Participants(item) ==
    SelectSeq(item.persons, LAMBDA p : p.role \in Host_Roles \cup Guest_Roles)

Show == Shows[main.show]

OutputFile(item) == EpisodePath(Show.slug, Pad4(item.ep))

EpisodeContent(i, item) == [kind |-> "episode", ep |-> item.ep, guid |-> i]

Finished(t, status) == [t EXCEPT !.pc = "done", !.status = status]

\* The task ends with an exception that no handler of build_episode_file
\* caught.
Raised(t, at) == [Finished(t, "raised") EXCEPT !.raisedAt = at]

Wrote(path, who) == hist' = [hist EXCEPT !.writes = @ \cup {<<path, who>>}]

\* Lines 158-169: the bonus check and the existence check of the target.
EpisodeStart(i) ==
    /\ tasks[i].pc = "start"
    /\ tasks' = [tasks EXCEPT ![i] =
            IF @.item.itunes_episodeType = "bonus" THEN Finished(@, "skipped_bonus")
            ELSE IF ~Overwrite_Existing /\ Exists(files, OutputFile(@.item))
            THEN Finished(@, "skipped_exists")
            ELSE [@ EXCEPT !.pc = "sponsors"]]
    /\ UNCHANGED <<files, dirs, SPONSORS, PARTICIPANTS, LOCK, main, flush, hist>>
    /\ UNCHANGED otherVars

\* Lines 181-227 up to build_participants: tags, links, chapters, then
\* get_picks, which saves each pick of the description with overwrite=True
\* (every description here holds the same one pick).  The step ends at the
\* first participant (or at the final save_file when there is none).
AfterSponsors(i, t) ==
    \E enrich \in EnrichOutcomes :
        IF enrich # "ok"
        THEN /\ tasks' = [tasks EXCEPT ![i] = Raised(t, "enrich")]
             /\ UNCHANGED <<files, dirs>>
        ELSE LET r == save_file(files, dirs, PickPath, [kind |-> "pick"], TRUE)
                 ps == Participants(t.item)
             IN  /\ files' = r.files
                 /\ dirs' = r.dirs
                 /\ tasks' = [tasks EXCEPT ![i] =
                        [t EXCEPT !.pc = IF ps = << >> THEN "save"
                                         ELSE IF ps[1].img # NoImg THEN "avatar"
                                         ELSE "participants"]]

\* Lines 97-117, up to the read of SPONSORS by the comprehension.
EpisodeSponsors(i) ==
    LET t == tasks[i] IN
    /\ t.pc = "sponsors"
    /\ \E page \in PageOutcomes :
         CASE page = "HTTPError" ->          \* caught at line 173: return
                /\ tasks' = [tasks EXCEPT ![i] = Finished(t, "failed")]
                /\ UNCHANGED <<files, dirs, hist>>
           [] page = "ConnectionError" ->    \* not caught: the task raises
                /\ tasks' = [tasks EXCEPT ![i] = Raised(t, "parse_sponsors")]
                /\ UNCHANGED <<files, dirs, hist>>
           [] page = "MissingSchema" ->      \* caught at line 179
                /\ AfterSponsors(i, t)
                /\ UNCHANGED hist
           [] OTHER ->
                \E out \in SponsorParserOutcomes(Show.slug, t.item.ep, i) :
                    LET sponsors == ParsedSponsors(out) IN
                    /\ tasks' = [tasks EXCEPT ![i] =
                          [t EXCEPT !.pc = "update",
                                    !.pairs = NewerSponsors(SPONSORS, sponsors)]]
                    /\ hist' = [hist EXCEPT !.mentions = @ \cup
                          { [key |-> k, sponsor |-> sponsors[k]] : k \in DOMAIN sponsors }]
                    /\ UNCHANGED <<files, dirs>>
    /\ UNCHANGED <<SPONSORS, PARTICIPANTS, LOCK, main, flush>>
    /\ UNCHANGED otherVars

\* Line 117: SPONSORS.update(...) with the list built before.
EpisodeUpdate(i) ==
    LET t == tasks[i] IN
    /\ t.pc = "update"
    /\ SPONSORS' = DictUpdate(SPONSORS, t.pairs)
    /\ AfterSponsors(i, [t EXCEPT !.pairs = EmptyRegistry])
    /\ UNCHANGED <<PARTICIPANTS, LOCK, main, flush, hist>>
    /\ UNCHANGED otherVars

\* save_avatar_img, lines 363-372 and save_file's line 457: the existence
\* checks of the avatar file, with the download between them.
EpisodeAvatar(i) ==
    LET t == tasks[i]
        person == Participants(t.item)[1]
        full_filepath == AvatarPath(get_canonical_username(person.name), person.img)
    IN
    /\ t.pc = "avatar"
    /\ \E download \in {"ok", "error"} :
         tasks' = [tasks EXCEPT ![i] =
            IF Exists(files, full_filepath) \/ download = "error"
               \/ SaveFileSkips(files, full_filepath, FALSE)
            THEN [t EXCEPT !.pc = "participants"]
            ELSE [t EXCEPT !.pc = "avatar_write"]]
    /\ UNCHANGED <<files, dirs, SPONSORS, PARTICIPANTS, LOCK, main, flush, hist>>
    /\ UNCHANGED otherVars

\* save_file, lines 461-465, for the avatar.
EpisodeAvatarWrite(i) ==
    LET t == tasks[i]
        person == Participants(t.item)[1]
        full_filepath == AvatarPath(get_canonical_username(person.name), person.img)
    IN
    /\ t.pc = "avatar_write"
    /\ files' = WriteFile(files, full_filepath, [kind |-> "image", url |-> person.img])
    /\ dirs' = MkdirParents(dirs, full_filepath)
    /\ tasks' = [tasks EXCEPT ![i] = [t EXCEPT !.pc = "participants"]]
    /\ Wrote(full_filepath, i)
    /\ UNCHANGED <<SPONSORS, PARTICIPANTS, LOCK, main, flush>>
    /\ UNCHANGED otherVars

\* Lines 346-354: PARTICIPANTS.update({filename: Participant(...)}).
EpisodeParticipants(i) ==
    LET t == tasks[i]
        person == Participants(t.item)[1]
        filename == get_canonical_username(person.name) \o ".md"
    IN
    /\ t.pc = "participants"
    /\ PARTICIPANTS' = DictUpdate(PARTICIPANTS, [f \in {filename} |-> Participant(person)])
    /\ tasks' = [tasks EXCEPT ![i] = [t EXCEPT !.pc = "save"]]
    /\ UNCHANGED <<files, dirs, SPONSORS, LOCK, main, flush, hist>>
    /\ UNCHANGED otherVars

\* Line 229: the overwrite flag passed to save_file.
EpisodeOverwrite_AlwaysOff(item) == FALSE

EpisodeOverwrite(item) ==
    IF EpisodeFileName(Pad4(item.ep)) \notin Show.dont_override
    THEN Overwrite_Existing ELSE FALSE

\* Line 229 and save_file's line 457: the skip decision for the episode
\* file; with overwrite on nothing is read and the write follows at once.
EpisodeSave(i) ==
    LET t == tasks[i]
        overwrite == EpisodeOverwrite(t.item)
    IN
    /\ t.pc = "save"
    /\ IF SaveFileSkips(files, OutputFile(t.item), overwrite)
       THEN /\ tasks' = [tasks EXCEPT ![i] = Finished(t, "not_written")]
            /\ UNCHANGED <<files, dirs, hist>>
       ELSE IF overwrite
       THEN /\ files' = WriteFile(files, OutputFile(t.item), EpisodeContent(i, t.item))
            /\ dirs' = MkdirParents(dirs, OutputFile(t.item))
            /\ tasks' = [tasks EXCEPT ![i] = Finished(t, "written")]
            /\ Wrote(OutputFile(t.item), i)
       ELSE /\ tasks' = [tasks EXCEPT ![i] = [t EXCEPT !.pc = "write"]]
            /\ UNCHANGED <<files, dirs, hist>>
    /\ UNCHANGED <<SPONSORS, PARTICIPANTS, LOCK, main, flush>>
    /\ UNCHANGED otherVars

\* save_file, lines 461-465, for the episode file.
EpisodeWrite(i) ==
    LET t == tasks[i] IN
    /\ t.pc = "write"
    /\ files' = WriteFile(files, OutputFile(t.item), EpisodeContent(i, t.item))
    /\ dirs' = MkdirParents(dirs, OutputFile(t.item))
    /\ tasks' = [tasks EXCEPT ![i] = Finished(t, "written")]
    /\ Wrote(OutputFile(t.item), i)
    /\ UNCHANGED <<SPONSORS, PARTICIPANTS, LOCK, main, flush>>
    /\ UNCHANGED otherVars

(***************************************************************************)
(* process_and_serialize_object, scraper.py:412-454, as one worker thread  *)
(* runs it for one registry entry.  The frame: pc, the object, its         *)
(* destination and how it ended.                                           *)
(***************************************************************************)
Unlocked == ""

\* dumps(Post('', **obj.model_dump(mode='json'))) and frontmatter.load: the
\* document of a registry object, and the metadata read back from it.
SponsorDocument(sponsor) ==
    [kind |-> "sponsor", episode |-> sponsor.episode, src |-> sponsor.src]

Document(obj) == IF "kind" \in DOMAIN obj THEN obj ELSE SponsorDocument(obj)

IsSponsor(obj) == "kind" \notin DOMAIN obj

\* Line 445: the persisted episode, when truthy, is at least the object's.
FileIsLatest_Strict(metadata, obj) ==
    /\ metadata.episode # 0 /\ metadata.episode # NoEpisode
    /\ metadata.episode > obj.episode

FileIsLatest(metadata, obj) ==
    /\ metadata.episode # 0 /\ metadata.episode # NoEpisode
    /\ metadata.episode >= obj.episode

\* Lines 450-451: homepage and avatar of the object merged into the
\* persisted metadata.
MergedParticipant_Replaces(metadata, obj) == obj

MergedParticipant(metadata, obj) ==
    [metadata EXCEPT !.homepage = obj.homepage, !.avatar = obj.avatar]

FlushFrame(obj, file_path) ==
    [pc |-> "check", obj |-> obj, path |-> file_path, status |-> "pending"]

\* Lines 431-439 and save_file's line 457: the existence checks of the
\* destination, with nothing but the decision between them.
FlushCheck(f) ==
    LET t == flush[f] IN
    /\ t.pc = "check"
    /\ flush' = [flush EXCEPT ![f] =
          IF Exists(files, t.path) /\ f \in data_dont_override
          THEN Finished(t, "skipped_exempt")
          ELSE IF ~Exists(files, t.path)
          THEN (IF SaveFileSkips(files, t.path, Overwrite_Existing)
                THEN Finished(t, "not_written")
                ELSE [t EXCEPT !.pc = "create"])
          ELSE [t EXCEPT !.pc = "lock"]]
    /\ UNCHANGED <<files, dirs, SPONSORS, PARTICIPANTS, LOCK, main, tasks, hist>>
    /\ UNCHANGED otherVars

\* save_file, lines 461-465, on the missing destination (line 438).
FlushCreate(f) ==
    LET t == flush[f] IN
    /\ t.pc = "create"
    /\ files' = WriteFile(files, t.path, Document(t.obj))
    /\ dirs' = MkdirParents(dirs, t.path)
    /\ flush' = [flush EXCEPT ![f] = Finished(t, "written")]
    /\ UNCHANGED <<SPONSORS, PARTICIPANTS, LOCK, main, tasks, hist>>
    /\ UNCHANGED otherVars

\* Line 441: with LOCK (blocks while another thread holds it).
FlushLock(f) ==
    /\ flush[f].pc = "lock"
    /\ LOCK = Unlocked
    /\ LOCK' = f
    /\ flush' = [flush EXCEPT ![f].pc = "locked"]
    /\ UNCHANGED <<files, dirs, SPONSORS, PARTICIPANTS, main, tasks, hist>>
    /\ UNCHANGED otherVars

\* Lines 442-451, and the release of LOCK when the with block is left.
FlushLocked(f) ==
    LET t == flush[f]
        metadata == files[t.path]
    IN
    /\ t.pc = "locked"
    /\ LOCK' = Unlocked
    /\ flush' = [flush EXCEPT ![f] =
          IF IsSponsor(t.obj)
          THEN (IF FileIsLatest(metadata, t.obj)
                THEN Finished(t, "skipped_latest")
                ELSE [t EXCEPT !.pc = "save"])
          ELSE [t EXCEPT !.pc = "save",
                         !.obj = MergedParticipant(metadata, t.obj)]]
    /\ UNCHANGED <<files, dirs, SPONSORS, PARTICIPANTS, main, tasks, hist>>
    /\ UNCHANGED otherVars

\* Line 454: save_file(file_path, ..., overwrite=overwrite).  With overwrite
\* on nothing is read before the write; with it off the destination, which
\* existed at line 437 and which nothing deletes, makes save_file skip.
FlushSave(f) ==
    LET t == flush[f]
        r == save_file(files, dirs, t.path, Document(t.obj), Overwrite_Existing)
    IN
    /\ t.pc = "save"
    /\ files' = r.files
    /\ dirs' = r.dirs
    /\ flush' = [flush EXCEPT ![f] =
          Finished(t, IF r.ret THEN "written" ELSE "not_written")]
    /\ UNCHANGED <<SPONSORS, PARTICIPANTS, LOCK, main, tasks, hist>>
    /\ UNCHANGED otherVars

(***************************************************************************)
(* main(), scraper.py:467-508, and the script's end, 516-519.              *)
(***************************************************************************)
NoTasks == << >>

NoFlush == [f \in {} |-> FlushFrame(EmptyRegistry, << >>)]

AllDone_NoWait(frames) == TRUE

AllDone(frames) == \A x \in DOMAIN frames : frames[x].pc = "done"

\* raisedAt: the call an exception left build_episode_file from, the one
\* its future holds for future.result() at line 505.
TaskFrame(item) ==
    [pc |-> "start", item |-> item, pairs |-> EmptyRegistry, status |-> "pending",
     raisedAt |-> "none"]

\* Lines 485-487: ValidationError is logged and the loop continues with
\* the next show.
AfterInvalidFeed_EndsRun(m) == [m EXCEPT !.pc = "all_done"]

AfterInvalidFeed(m) == [m EXCEPT !.show = @ + 1]

\* Lines 491-501: the items a task is submitted for, in the order of the
\* feed; the loop breaks at the first index at or beyond the limit when
\* Settings.LATEST_ONLY is set.
SubmittedItems_OneMore(items, LATEST_ONLY, LATEST_ONLY_EP_LIMIT) ==
    LET Loop[idx \in 0..Len(items)] ==
            IF idx = Len(items) THEN << >>
            ELSE IF LATEST_ONLY /\ idx > LATEST_ONLY_EP_LIMIT THEN << >>
            ELSE <<items[idx + 1]>> \o Loop[idx + 1]
    IN  Loop[0]

SubmittedItems(items, LATEST_ONLY, LATEST_ONLY_EP_LIMIT) ==
    LET Loop[idx \in 0..Len(items)] ==
            IF idx = Len(items) THEN << >>
            ELSE IF LATEST_ONLY /\ idx >= LATEST_ONLY_EP_LIMIT THEN << >>
            ELSE <<items[idx + 1]>> \o Loop[idx + 1]
    IN  Loop[0]

\* Lines 473-501: the feed is fetched and parsed and one task per item is
\* submitted.  A connection failure of requests.get is not caught; a feed
\* that fails validation skips the show (line 487).  The feed stands for
\* the items submitted: SubmittedItems of a feed is a feed of Feeds.
MainFetch ==
    /\ main.pc = "fetch"
    /\ main.show <= Len(Shows)
    /\ \/ /\ main' = [main EXCEPT !.pc = "crashed"]
          /\ UNCHANGED <<tasks, hist>>
       \/ /\ main' = AfterInvalidFeed(main)
          /\ hist' = [hist EXCEPT !.invalid = @ \cup {main.show}]
          /\ UNCHANGED tasks
       \/ \E feed \in Feeds :
            /\ hist.submitted + Len(feed) <= MaxItems
            /\ tasks' = [i \in DOMAIN feed |-> TaskFrame(feed[i])]
            /\ main' = [main EXCEPT !.pc = "episodes"]
            /\ hist' = [hist EXCEPT !.submitted = @ + Len(feed)]
    /\ UNCHANGED <<files, dirs, SPONSORS, PARTICIPANTS, LOCK, flush>>
    /\ UNCHANGED otherVars

\* Lines 504-507: future.result() re-raises a task's exception in main; the
\* executor's exit then waits for the tasks still running, and the
\* exception leaves main.  Otherwise save_sponsors submits one task per
\* entry of SPONSORS (lines 386-389).
MainDrainEpisodes ==
    /\ main.pc = "episodes"
    /\ AllDone(tasks)
    /\ IF \E i \in DOMAIN tasks : tasks[i].status = "raised"
       THEN /\ main' = [main EXCEPT !.pc = "crashed"]
            /\ UNCHANGED flush
       ELSE /\ main' = [main EXCEPT !.pc = "save_sponsors"]
            /\ flush' = [f \in DOMAIN SPONSORS |->
                            FlushFrame(SPONSORS[f], SponsorPath(f))]
    /\ UNCHANGED <<files, dirs, SPONSORS, PARTICIPANTS, LOCK, tasks, hist>>
    /\ UNCHANGED otherVars

\* Lines 392-404: the sponsor tasks are drained, SPONSORS is cleared and
\* save_participants submits one task per entry of PARTICIPANTS.
MainDrainSponsors ==
    /\ main.pc = "save_sponsors"
    /\ AllDone(flush)
    /\ SPONSORS' = EmptyRegistry
    /\ flush' = [f \in DOMAIN PARTICIPANTS |->
                    FlushFrame(PARTICIPANTS[f], PersonPath(f))]
    /\ main' = [main EXCEPT !.pc = "save_participants"]
    /\ hist' = [hist EXCEPT !.savedSponsors = @ \cup {main.show},
                            !.mentions = {}, !.writes = {}]
    /\ UNCHANGED <<files, dirs, PARTICIPANTS, LOCK, tasks>>
    /\ UNCHANGED otherVars

\* Lines 407-410, and the next turn of the loop over the shows.
MainDrainParticipants ==
    /\ main.pc = "save_participants"
    /\ AllDone(flush)
    /\ PARTICIPANTS' = EmptyRegistry
    /\ flush' = NoFlush
    /\ tasks' = NoTasks
    /\ main' = [main EXCEPT !.pc = "fetch", !.show = @ + 1]
    /\ hist' = [hist EXCEPT !.savedParticipants = @ \cup {main.show}]
    /\ UNCHANGED <<files, dirs, SPONSORS, LOCK>>
    /\ UNCHANGED otherVars

\* Lines 517-519: main() returned; "ALL DONE" is logged and exit(0) called.
MainAllDone ==
    /\ main.pc = "fetch"
    /\ main.show > Len(Shows)
    /\ main' = [main EXCEPT !.pc = "all_done"]
    /\ UNCHANGED <<files, dirs, SPONSORS, PARTICIPANTS, LOCK, tasks, flush, hist>>
    /\ UNCHANGED otherVars

(***************************************************************************)
(* SpecScrape: one call of parse_sponsors or of parse_tags, run by one     *)
(* thread from the request of the page to the return.                      *)
(*   fn        the function called                                         *)
(*   pc        "request", "strategy", "update", "return" or "done"         *)
(*   episode_number  the argument of that name                             *)
(*   entry     SPONSORS when the call was made (for the properties only)   *)
(*   strategy  how the parser's run() ended, once it has                   *)
(*   ran       whether run() has been called                               *)
(*   sponsors, tags  the locals of these names                             *)
(*   outcome   "pending", "returned" (ret: the list, as the set of its     *)
(*             elements) or "raised"                                       *)
(***************************************************************************)
ScrapeFunctions == {"parse_sponsors", "parse_tags"}

ScrapeFrame(fn, episode_number, entry) ==
    [fn |-> fn, pc |-> "request", episode_number |-> episode_number,
     entry |-> entry, ran |-> FALSE,
     strategy |-> [raised |-> FALSE, found |-> {}],
     sponsors |-> EmptyRegistry, tags |-> {},
     outcome |-> "pending", ret |-> {}]

\* Lines 97-98 and 126-130.  parse_sponsors lets every failure of the get
\* and of raise_for_status escape; parse_tags returns [] on a missing
\* scheme, does not look at the status, and lets a connection failure
\* escape.
ScrapeRequest ==
    /\ scrape.pc = "request"
    /\ \E page \in PageOutcomes :
         scrape' =
            IF scrape.fn = "parse_sponsors"
            THEN IF page = "ok" THEN [scrape EXCEPT !.pc = "strategy"]
                 ELSE [scrape EXCEPT !.pc = "done", !.outcome = "raised"]
            ELSE IF page = "MissingSchema"
                 THEN [scrape EXCEPT !.pc = "done", !.outcome = "returned",
                                     !.ret = scrape.tags]
                 ELSE IF page = "ConnectionError"
                 THEN [scrape EXCEPT !.pc = "done", !.outcome = "raised"]
                 ELSE [scrape EXCEPT !.pc = "strategy"]
    /\ UNCHANGED SPONSORS

\* Lines 109-115 and 138-143: the parser runs inside the try statement.
ScrapeStrategy ==
    /\ scrape.pc = "strategy"
    /\ IF scrape.fn = "parse_sponsors"
       THEN \E out \in SponsorParserOutcomes("lup", scrape.episode_number, 1) :
                scrape' = [scrape EXCEPT !.ran = TRUE, !.strategy = out,
                                         !.sponsors = ParsedSponsors(out),
                                         !.pc = "update"]
       ELSE \E out \in TagParserOutcomes :
                scrape' = [scrape EXCEPT !.ran = TRUE, !.strategy = out,
                                         !.tags = ParsedTags(out),
                                         !.pc = "return"]
    /\ UNCHANGED SPONSORS

\* Line 117.
ScrapeUpdate ==
    /\ scrape.pc = "update"
    /\ SPONSORS' = UpdateSponsors(SPONSORS, scrape.sponsors)
    /\ scrape' = [scrape EXCEPT !.pc = "return"]

\* Lines 119 and 145.
ScrapeReturn ==
    /\ scrape.pc = "return"
    /\ scrape' = [scrape EXCEPT
          !.pc = "done", !.outcome = "returned",
          !.ret = IF scrape.fn = "parse_sponsors"
                  THEN { Shortname(k) : k \in DOMAIN scrape.sponsors }
                  ELSE scrape.tags]
    /\ UNCHANGED SPONSORS

(***************************************************************************)
(* Episode numbering, scraper.py:147-165.  A string is the sequence of its *)
(* characters; in a title the phrase "Pocket Office " is one element.      *)
(***************************************************************************)
IsDigit(c) == \E k \in 1..10 : Digit[k] = c

\* str.isnumeric() on the characters used here: not empty, digits only.
IsNumeric(str) == str # << >> /\ \A k \in 1..Len(str) : IsDigit(str[k])

\* Lines 151-155: re.match(r'.*?((?:Pocket Office )?\d+):', title), the
\* group of the match or '' when there is none.  The lazy prefix makes the
\* match start at the first position from which the group and the colon
\* match; \d+ takes the whole run of digits, as the colon must follow it.
parse_episode_number_DigitsOnly(title) ==
    LET n == Len(title)
        RunEnd[d \in 1..(n + 1)] ==
            IF d <= n /\ IsDigit(title[d]) THEN RunEnd[d + 1] ELSE d - 1
        Matches(d) ==
            IsDigit(title[d]) /\ RunEnd[d] < n /\ title[RunEnd[d] + 1] = ":"
        hits == { d \in 1..n : Matches(d) }
    IN  IF hits = {} THEN << >>
        ELSE LET d == CHOOSE q \in hits : \A r \in hits : q <= r
             IN  SubSeq(title, d, RunEnd[d])

parse_episode_number(title) ==
    LET n == Len(title)
        RunEnd[d \in 1..(n + 1)] ==
            IF d <= n /\ IsDigit(title[d]) THEN RunEnd[d + 1] ELSE d - 1
        Digits(p) == IF title[p + 1] = "Pocket Office " THEN p + 2 ELSE p + 1
        Matches(p) ==
            /\ Digits(p) <= n /\ IsDigit(title[Digits(p)])
            /\ RunEnd[Digits(p)] < n /\ title[RunEnd[Digits(p)] + 1] = ":"
        hits == { p \in 0..(n - 1) : Matches(p) }
    IN  IF hits = {} THEN << >>
        ELSE LET p == CHOOSE q \in hits : \A r \in hits : q <= r
             IN  SubSeq(title, p + 1, RunEnd[Digits(p)])

\* f'{n:04}' as a sequence of characters: at least four digits.
Format04_Unpadded(n) ==
    LET Decimal[m \in 0..n] ==
            IF m < 10 THEN <<Digit[m + 1]>>
            ELSE Decimal[m \div 10] \o <<Digit[(m % 10) + 1]>>
    IN  Decimal[n]

Format04(n) ==
    LET Decimal[m \in 0..n] ==
            IF m < 10 THEN <<Digit[m + 1]>>
            ELSE Decimal[m \div 10] \o <<Digit[(m % 10) + 1]>>
        digits == Decimal[n]
    IN  IF Len(digits) < 4
        THEN [k \in 1..(4 - Len(digits)) |-> "0"] \o digits
        ELSE digits

\* Lines 162-165: the episode string, the number and its padded form, and
\* the stem of the output file's name.  item.podcast_episode holds the
\* podcast:episode element when the item has one.
EpisodeNumber(item) ==
    LET episode_string ==
            IF item.podcast_episode # << >> THEN item.podcast_episode[1].episode
            ELSE parse_episode_number(item.title)
        Value[k \in 0..Len(episode_string)] ==
            IF k = 0 THEN 0
            ELSE 10 * Value[k - 1]
                 + (CHOOSE v \in 0..9 : Digit[v + 1] = episode_string[k])
        slashes == { k \in 1..Len(item.link) : item.link[k] = "/" }
        last == IF slashes = {} THEN 0
                ELSE CHOOSE k \in slashes : \A j \in slashes : j <= k
        segment == SubSeq(item.link, last + 1, Len(item.link))
        numeric == IsNumeric(episode_string)
        padded == IF numeric THEN Format04(Value[Len(episode_string)]) ELSE segment
    IN  [episode_number |-> IF numeric THEN Value[Len(episode_string)] ELSE segment,
         episode_number_padded |-> padded,
         stem |-> SelectSeq(padded, LAMBDA c : c # "/")]

\* The longest title numbered, in elements.
MaxTitle == 4

(***************************************************************************)
(* The specifications.                                                     *)
(***************************************************************************)
vars == <<files, dirs, writer, SPONSORS, updates, chap, scrape, call,
          Overwrite_Existing,
          PARTICIPANTS, LOCK, main, tasks, flush, hist>>

runVars == <<Overwrite_Existing, PARTICIPANTS, LOCK, main, tasks, flush, hist>>

NoHistory ==
    [mentions |-> {}, writes |-> {}, invalid |-> {}, submitted |-> 0,
     savedSponsors |-> {}, savedParticipants |-> {}]

\* main() not started.
RunIdle ==
    /\ Overwrite_Existing = FALSE
    /\ PARTICIPANTS = EmptyRegistry
    /\ LOCK = Unlocked
    /\ main = [pc |-> "idle", show |-> 1]
    /\ tasks = NoTasks
    /\ flush = NoFlush
    /\ hist = NoHistory

ChaptersIdle == chap = Return(ChaptersFrame(NoChapters), NoneStr)

\* No function called on its own.
CallIdle == call = [fn |-> "none", pc |-> "done"]

\* No call of parse_sponsors or parse_tags on its own.
ScrapeIdle ==
    scrape = [ScrapeFrame("parse_tags", 1, EmptyRegistry) EXCEPT !.pc = "done"]

\* The files a previous run has left below Settings.DATA_DIR.
OldFiles ==
    [p \in { EpisodePath("lup", "0001"), EpisodePath("lup", "0002"),
             SponsorPath("linode.com-lup.md"), SponsorPath("tailscale.com-lup.md"),
             PersonPath("chris.md"),
             <<"static", "images", "people", "chris.jpg">> } |->
        CASE p[2] = "show"     -> [kind |-> "episode", ep |-> 0, guid |-> 0]
          [] p[2] = "sponsors" -> [kind |-> "sponsor", episode |-> 1, src |-> "old"]
          [] p[2] = "people"   -> [kind |-> "participant", type |-> "guest",
                                   username |-> "chris",
                                   title |-> <<"C", "h", "r", "i", "s">>,
                                   homepage |-> "https://old.example.org",
                                   avatar |-> << >>]
          [] OTHER             -> [kind |-> "image", url |-> <<"old">>]]

\* The file systems a run starts from: nothing, the registry files only,
\* or everything a previous run left.
InitialFiles ==
    { {}, { p \in DOMAIN OldFiles : p[2] \in {"sponsors", "people"} }, DOMAIN OldFiles }

FileSystem(present) ==
    [p \in Paths |-> IF p \in present THEN OldFiles[p] ELSE NoFile]

Init ==
    /\ \E present \in InitialFiles :
         /\ files = FileSystem(present)
         /\ dirs = UNION { Ancestors(p) : p \in present }
    /\ Overwrite_Existing \in BOOLEAN
    /\ SPONSORS = EmptyRegistry
    /\ PARTICIPANTS = EmptyRegistry
    /\ LOCK = Unlocked
    /\ main = [pc |-> "fetch", show |-> 1]
    /\ tasks = NoTasks
    /\ flush = NoFlush
    /\ hist = NoHistory
    /\ writer = << >>
    /\ updates = << >>
    /\ ChaptersIdle
    /\ ScrapeIdle
    /\ CallIdle

RunNext ==
    \/ MainFetch
    \/ MainDrainEpisodes
    \/ MainDrainSponsors
    \/ MainDrainParticipants
    \/ MainAllDone
    \/ \E i \in DOMAIN tasks : EpisodeStart(i)
    \/ \E i \in DOMAIN tasks : EpisodeSponsors(i)
    \/ \E i \in DOMAIN tasks : EpisodeUpdate(i)
    \/ \E i \in DOMAIN tasks : EpisodeAvatar(i)
    \/ \E i \in DOMAIN tasks : EpisodeAvatarWrite(i)
    \/ \E i \in DOMAIN tasks : EpisodeParticipants(i)
    \/ \E i \in DOMAIN tasks : EpisodeSave(i)
    \/ \E i \in DOMAIN tasks : EpisodeWrite(i)
    \/ \E f \in DOMAIN flush : FlushCheck(f)
    \/ \E f \in DOMAIN flush : FlushCreate(f)
    \/ \E f \in DOMAIN flush : FlushLock(f)
    \/ \E f \in DOMAIN flush : FlushLocked(f)
    \/ \E f \in DOMAIN flush : FlushSave(f)

Next == RunNext

Spec == Init /\ [][Next]_vars

InitWriter ==
    /\ WriterInit /\ SPONSORS = EmptyRegistry /\ updates = << >>
    /\ ChaptersIdle /\ ScrapeIdle /\ CallIdle /\ RunIdle

NextWriter == WriterNext /\ UNCHANGED <<SPONSORS, updates, chap, scrape, call, runVars>>

SpecWriter == InitWriter /\ [][NextWriter]_vars

InitSponsors ==
    /\ SponsorsInit /\ files = FileSystem({}) /\ dirs = {} /\ writer = << >>
    /\ ChaptersIdle /\ ScrapeIdle /\ CallIdle /\ RunIdle

NextSponsors == SponsorsNext /\ UNCHANGED <<fsVars, writer, chap, scrape, call, runVars>>

SpecSponsors == InitSponsors /\ [][NextSponsors]_vars

InitChapters ==
    /\ ChaptersInit /\ files = FileSystem({}) /\ dirs = {} /\ writer = << >>
    /\ SponsorsInit /\ ScrapeIdle /\ CallIdle /\ RunIdle

NextChapters ==
    ChaptersNext /\ UNCHANGED <<fsVars, writer, SPONSORS, updates, scrape, call, runVars>>

SpecChapters == InitChapters /\ [][NextChapters]_vars

(***************************************************************************)
(* SpecFlush: save_sponsors or save_participants flushing one registry     *)
(* onto the files an earlier run, or a hand, has left: the sponsor files   *)
(* with any episode number or none, the participant file with any role,    *)
(* title, homepage and avatar.  The registry's sponsors have an episode    *)
(* number of at least 1, as line 117 registers no other.                   *)
(***************************************************************************)
PersistedSponsors ==
    { [kind |-> "sponsor", episode |-> e, src |-> "old"] : e \in EpisodeValues }

PersistedParticipants ==
    [kind : {"participant"}, type : {"host", "guest"}, username : {"chris"},
     title : { <<"C", "h", "r", "i", "s">>, <<"C", "J">> },
     homepage : {NoneStr, "https://old.example.org"},
     avatar : { << >>, <<"images", "people", "chris.png">> }]

RegistrySponsors == { sp \in Sponsors : sp.episode >= 1 }

\* The sponsor files and the participant file found below DATA_DIR.
FlushFiles(sponsors, participant) ==
    [p \in Paths |->
        IF p[2] = "sponsors" /\ p[3] \in DOMAIN sponsors THEN sponsors[p[3]]
        ELSE IF p = PersonPath("chris.md") THEN participant
        ELSE NoFile]

InitFlush ==
    /\ \/ /\ \E persisted \in [Keys -> {NoFile} \cup PersistedSponsors] :
                files = FlushFiles(persisted, NoFile)
          /\ SPONSORS \in [Keys -> RegistrySponsors]
          /\ PARTICIPANTS = EmptyRegistry
          /\ flush = [f \in DOMAIN SPONSORS |-> FlushFrame(SPONSORS[f], SponsorPath(f))]
          /\ main = [pc |-> "save_sponsors", show |-> 1]
       \/ /\ \E persisted \in {NoFile} \cup PersistedParticipants :
                files = FlushFiles(EmptyRegistry, persisted)
          /\ SPONSORS = EmptyRegistry
          /\ PARTICIPANTS \in [{"chris.md"} -> { Participant(p) : p \in Persons }]
          /\ flush = [f \in DOMAIN PARTICIPANTS |-> FlushFrame(PARTICIPANTS[f], PersonPath(f))]
          /\ main = [pc |-> "save_participants", show |-> 1]
    /\ dirs = UNION { Ancestors(p) : p \in { q \in Paths : files[q] # NoFile } }
    /\ Overwrite_Existing \in BOOLEAN
    /\ LOCK = Unlocked
    /\ tasks = NoTasks
    /\ hist = NoHistory
    /\ writer = << >>
    /\ updates = << >>
    /\ ChaptersIdle
    /\ ScrapeIdle
    /\ CallIdle

NextFlush ==
    \/ \E f \in DOMAIN flush : FlushCheck(f)
    \/ \E f \in DOMAIN flush : FlushCreate(f)
    \/ \E f \in DOMAIN flush : FlushLock(f)
    \/ \E f \in DOMAIN flush : FlushLocked(f)
    \/ \E f \in DOMAIN flush : FlushSave(f)

SpecFlush == InitFlush /\ [][NextFlush]_vars

(***************************************************************************)
(* SpecScrape: the call is made with any registry that line 117 can have   *)
(* built from the sponsors of earlier pages.                               *)
(***************************************************************************)
ScrapeRegistries ==
    UNION { [ks -> RegistrySponsors] : ks \in SUBSET Keys }

InitScrape ==
    /\ SPONSORS \in ScrapeRegistries
    /\ \E fn \in ScrapeFunctions : \E episode_number \in 1..MaxEp :
          scrape = ScrapeFrame(fn, episode_number, SPONSORS)
    /\ files = FileSystem({}) /\ dirs = {} /\ writer = << >> /\ updates = << >>
    /\ ChaptersIdle /\ CallIdle /\ RunIdle

ScrapeNext == ScrapeRequest \/ ScrapeStrategy \/ ScrapeUpdate \/ ScrapeReturn

NextScrape ==
    ScrapeNext /\ UNCHANGED <<fsVars, writer, updates, chap, call, runVars>>

SpecScrape == InitScrape /\ [][NextScrape]_vars

(***************************************************************************)
(* SpecBonus: a run whose first feed, already fetched, declares any        *)
(* episode type for its items; the registry files of an earlier run exist. *)
(***************************************************************************)
TypedItems ==
    [ep : 1..MaxEp, persons : { <<p>> : p \in Persons },
     itunes_episodeType : EPISODE_TYPES]

InitBonus ==
    /\ files = FileSystem({ p \in DOMAIN OldFiles : p[2] \in {"sponsors", "people"} })
    /\ dirs = UNION { Ancestors(p) : p \in { q \in Paths : files[q] # NoFile } }
    /\ Overwrite_Existing = FALSE
    /\ SPONSORS = EmptyRegistry
    /\ PARTICIPANTS = EmptyRegistry
    /\ LOCK = Unlocked
    /\ main = [pc |-> "episodes", show |-> 1]
    /\ \E feed \in UNION { [1..n -> TypedItems] : n \in 1..MaxItems } :
          /\ tasks = [i \in DOMAIN feed |-> TaskFrame(feed[i])]
          /\ hist = [NoHistory EXCEPT !.submitted = Len(feed)]
    /\ flush = NoFlush
    /\ writer = << >>
    /\ updates = << >>
    /\ ChaptersIdle
    /\ ScrapeIdle
    /\ CallIdle

NextBonus == RunNext

SpecBonus == InitBonus /\ [][NextBonus]_vars

(***************************************************************************)
(* SpecFunctions: one call of a function that touches nothing shared, on   *)
(* arguments from bounded sets.                                            *)
(***************************************************************************)
\* Lines 162-165 on the item of the call.
CallEpisodeNumber ==
    /\ call.fn = "episode_number"
    /\ call.pc = "call"
    /\ call' = [call EXCEPT !.pc = "done", !.ret = EpisodeNumber(call.item)]
    /\ UNCHANGED <<fsVars, writer, SPONSORS, updates, chap, scrape, runVars>>

\* get_canonical_username with the alias map the call is made with.
CallCanonicalUsername ==
    /\ call.fn = "get_canonical_username"
    /\ call.pc = "call"
    /\ call' = [call EXCEPT !.pc = "done",
                            !.ret = CanonicalUsername(call.map, call.name)]
    /\ UNCHANGED <<fsVars, writer, SPONSORS, updates, chap, scrape, runVars>>

\* Lines 491-501 on the items of the call.
CallSubmit ==
    /\ call.fn = "submit"
    /\ call.pc = "call"
    /\ call' = [call EXCEPT !.pc = "done",
                            !.ret = SubmittedItems(call.items, call.LATEST_ONLY,
                                                   call.LATEST_ONLY_EP_LIMIT)]
    /\ UNCHANGED <<fsVars, writer, SPONSORS, updates, chap, scrape, runVars>>

InitFunctions ==
    /\ \/ \E item \in
         [title : UNION { [1..n -> {"4", "2", ":", " ", "M", "Pocket Office "}] :
                             n \in 0..MaxTitle }
                  \cup { <<"4", "2", ":", " ", "M", "y", " ", "E", "p", "i", "s", "o",
                           "d", "e", " ", "|", " ", "E", "x", "t", "r", "a">> },
          podcast_episode :
             { << >> } \cup
             { <<[display |-> "ep", episode |-> e]>> :
                 e \in { <<"7">>, <<"0", "0", "7">>, <<"1", "0", "0", "0", "0">>,
                         <<"1", ".", "5">>, << >> } },
          link : { <<"h", ":", "/", "/", "x", "/", "e", "p", "9">>,
                   <<"h", ":", "/", "/", "x", "/", "9", "/">>,
                   <<"e", "p">> }] :
             call = [fn |-> "episode_number", pc |-> "call", item |-> item,
                     ret |-> NoneStr]
       \/ \E name \in { <<"C", "h", "r", "i", "s">>, <<"C", " ", "J">>,
                         <<"W", "e", "s", " ", "B">> } :
          \E map \in
             LET names == SUBSET { <<"C", "h", "r", "i", "s">>, <<"C", " ", "J">>,
                                   <<"W", "e", "s", " ", "B">> }
                 entries == [key : {"chris", "wes"}, names : names]
             IN  { << >> } \cup { <<e>> : e \in entries }
                 \cup { <<e, f>> : e \in { x \in entries : x.key = "chris" },
                                   f \in { x \in entries : x.key = "wes" } }
                 \cup { <<f, e>> : e \in { x \in entries : x.key = "chris" },
                                   f \in { x \in entries : x.key = "wes" } } :
             call = [fn |-> "get_canonical_username", pc |-> "call",
                     map |-> map, name |-> name, ret |-> NoneStr]
       \/ \E items \in UNION { [1..n -> {"a", "b"}] : n \in 0..(MaxItems + 1) } :
          \E latest \in BOOLEAN : \E limit \in 0..(MaxItems + 2) :
             call = [fn |-> "submit", pc |-> "call", items |-> items,
                     LATEST_ONLY |-> latest, LATEST_ONLY_EP_LIMIT |-> limit,
                     ret |-> NoneStr]
    /\ files = FileSystem({}) /\ dirs = {} /\ writer = << >>
    /\ SponsorsInit /\ ChaptersIdle /\ ScrapeIdle /\ RunIdle

NextFunctions ==
    \/ CallEpisodeNumber
    \/ CallCanonicalUsername
    \/ CallSubmit

SpecFunctions == InitFunctions /\ [][NextFunctions]_vars

(***************************************************************************)
(* Properties of save_file (SpecWriter).                                   *)
(***************************************************************************)
\* C1: save_file never overwrites unless overwrite is true.  A call with
\* overwrite off on an existing path returns False and leaves the content
\* as it was; a call on a missing path creates the missing parent
\* directories, writes the content and returns True; so of two successive
\* calls with overwrite off on the same path and content, starting from a
\* missing path, only the first writes and the second returns False.
C1_SaveFileNeverOverwrites ==
    /\ \A n \in 1..Len(writer) :
         LET c == writer[n] IN
         /\ (~c.overwrite /\ c.before # NoFile) =>
                /\ c.ret = FALSE
                /\ c.after = c.before
                /\ c.dirsAfter = c.dirsBefore
         /\ c.before = NoFile =>
                /\ c.ret = TRUE
                /\ c.after = c.content
                /\ Ancestors(c.path) \subseteq c.dirsAfter
         /\ n = Len(writer) => files[c.path] = c.after /\ dirs = c.dirsAfter
    /\ \A n \in 1..(Len(writer) - 1) :
         LET c == writer[n]
             d == writer[n + 1]
         IN  (c.path = d.path /\ c.content = d.content
              /\ ~c.overwrite /\ ~d.overwrite) =>
                /\ d.ret = FALSE
                /\ d.after = c.after
                /\ c.before = NoFile => (c.ret = TRUE /\ d.after = c.content)

\* C1's case: a missing path saved twice with overwrite off.
C1_Witness ==
    \E n \in 1..(Len(writer) - 1) :
        /\ writer[n].path = writer[n + 1].path
        /\ writer[n].content = writer[n + 1].content
        /\ ~writer[n].overwrite /\ ~writer[n + 1].overwrite
        /\ writer[n].before = NoFile
        /\ ~(Ancestors(writer[n].path) \subseteq writer[n].dirsBefore)
        /\ writer[n].ret = TRUE /\ writer[n + 1].ret = FALSE

(***************************************************************************)
(* Properties of the sponsor registry (SpecSponsors).                      *)
(***************************************************************************)
UpdatesTo(key) == { n \in 1..Len(updates) : updates[n].key = key }

\* The highest episode number among the updates to key, as line 117
\* compares them.
HighestEpisode(key) ==
    SetMax({ EpisodeOrDefault(updates[n].sponsor.episode) : n \in UpdatesTo(key) })

\* The updates to key that carry the highest episode number.
Highest(key) ==
    { n \in UpdatesTo(key) :
        EpisodeOrDefault(updates[n].sponsor.episode) = HighestEpisode(key) }

\* C2 as stated: after updates with episode numbers e1..en to a key, the
\* registry holds the record with episode number max(e1..en), and every
\* other order of the same updates yields the same final record.
C2_MaxWinsInAnyOrder ==
    (\A n \in 1..Len(updates) : updates[n].sponsor.episode # NoEpisode) =>
        \A key \in Keys :
            UpdatesTo(key) # {} =>
                /\ key \in DOMAIN SPONSORS
                /\ SPONSORS[key].episode =
                      SetMax({ updates[n].sponsor.episode : n \in UpdatesTo(key) })
                /\ \A f \in Orders(Len(updates)) :
                      ApplyAll(Reordered(updates, f)) = SPONSORS

\* C2, amended: when some update to the key has an episode number of at
\* least 1, the registry holds the first applied of the records with the
\* highest episode number; every other order ends with that episode number,
\* and with the same record when the records carrying it are equal.  A key
\* whose updates all have episode 0 or none is not registered.
C2_MaxWinsFirstSeen ==
    LET others == { ApplyAll(Reordered(updates, f)) : f \in Orders(Len(updates)) } IN
    \A key \in Keys :
        UpdatesTo(key) # {} =>
            IF HighestEpisode(key) >= 1
            THEN /\ key \in DOMAIN SPONSORS
                 /\ SPONSORS[key] = updates[0 - SetMax({ 0 - n : n \in Highest(key) })].sponsor
                 /\ \A other \in others :
                      /\ key \in DOMAIN other
                      /\ other[key].episode = HighestEpisode(key)
                      /\ Cardinality({ updates[n].sponsor : n \in Highest(key) }) = 1
                            => other[key] = SPONSORS[key]
            ELSE /\ key \notin DOMAIN SPONSORS
                 /\ \A other \in others : key \notin DOMAIN other

\* C2's case: a key updated three times, a lower episode arriving after a
\* higher one and the highest arriving twice with different records.
C2_Witness ==
    \E key \in Keys :
        /\ Cardinality(UpdatesTo(key)) = MaxUpdates
        /\ Cardinality(Highest(key)) = 2
        /\ Cardinality({ updates[n].sponsor : n \in Highest(key) }) = 2
        /\ HighestEpisode(key) > 1
        /\ updates[Len(updates)].sponsor.episode = 1

(***************************************************************************)
(* Properties of get_podcast_chapters (SpecChapters).                      *)
(***************************************************************************)
\* C9: when every attempt up to Settings.Retry_Count raises
\* ChunkedEncodingError, the call logs an error and returns no chapters; it
\* does not raise.
C9_ExhaustionReturnsNoChapters ==
    (/\ chap.pc = "done"
     /\ Len(chap.trace) = Retry_Count
     /\ \A n \in 1..Len(chap.trace) : chap.trace[n] = "chunked") =>
        /\ chap.outcome = "returned"
        /\ chap.value = NoneStr
        /\ "error: unable to retrieve" \in chap.log

\* How a finished call must have ended, by what its last request met.
ChaptersEnding ==
    (chap.pc = "done" /\ chap.trace # << >>) =>
        LET last == chap.trace[Len(chap.trace)] IN
        /\ last = "http_error" => (chap.outcome = "returned" /\ chap.value = NoneStr)
        /\ last = "invalid" =>
              /\ chap.outcome = "returned" /\ chap.value = NoneStr
              /\ "warning: invalid chapters" \in chap.log
        /\ last = "valid" =>
              /\ chap.outcome = "returned"
              /\ chap.value = chap.response.text /\ chap.value \in ValidBodies

\* C10 as stated: at most Settings.Retry_Count requests, a further request
\* only after a transient transport error, and the first other outcome ends
\* the call: no chapters on an HTTP error, no chapters and a warning on an
\* invalid body, the chapters on a valid body.
C10_RetryOnlyAfterTransientError ==
    /\ chap.requests <= Retry_Count
    /\ \A n \in 1..Len(chap.trace) : n < chap.requests => chap.trace[n] = "chunked"
    /\ ChaptersEnding

\* C10, amended: a further request follows a transient transport error or
\* a response with an empty body, and nothing else.
C10_RetryAfterTransientErrorOrEmptyBody ==
    /\ chap.requests <= Retry_Count
    /\ \A n \in 1..Len(chap.trace) :
          n < chap.requests => chap.trace[n] \in {"chunked", "empty"}
    /\ ChaptersEnding

\* C10's case: the last permitted request, made after a transient error and
\* an empty body, returns the chapters.
C10_Witness ==
    /\ chap.pc = "done"
    /\ chap.requests = Retry_Count
    /\ \E n \in 1..Len(chap.trace) : chap.trace[n] = "chunked"
    /\ \E n \in 1..Len(chap.trace) : chap.trace[n] = "empty"
    /\ chap.trace[Len(chap.trace)] = "valid"
    /\ chap.outcome = "returned" /\ chap.value \in ValidBodies

(***************************************************************************)
(* Properties of a run over the configured shows (Spec).                   *)
(***************************************************************************)
\* The sponsor mentions of key parsed by the episode tasks of the show
\* being processed.
MentionsOf(key) == { m \in hist.mentions : m.key = key }

\* C3: when the episode tasks of a show run concurrently, the registry
\* entry of a sponsor key is, at the flush, the mention with the highest
\* episode number among those the tasks parsed, whatever the interleaving.
C3_FlushedSponsorIsHighestMention ==
    main.pc = "save_sponsors" =>
        \A key \in Keys :
            MentionsOf(key) # {} =>
                /\ key \in DOMAIN SPONSORS
                /\ SPONSORS[key].episode =
                      SetMax({ m.sponsor.episode : m \in MentionsOf(key) })

\* The episode tasks that have read the registry at line 117 and have not
\* yet applied the update computed from what they read.
BetweenReadAndUpdate == { i \in DOMAIN tasks : tasks[i].pc = "update" }

\* C4: the read and the update of the registries are mutually exclusive
\* across the workers: while one task is between its read of SPONSORS and
\* the update that depends on it, no other task is.
C4_RegistryAccessIsExclusive == Cardinality(BetweenReadAndUpdate) <= 1

\* The tasks that wrote path while the show's episodes were processed.
WritersOf(path) == { w[2] : w \in { x \in hist.writes : x[1] = path } }

\* C5: with overwrite off, an episode file or an avatar image that several
\* tasks find missing is written by one of them only.
C5_OneWriterPerFile ==
    ~Overwrite_Existing =>
        \A path \in Paths : Cardinality(WritersOf(path)) <= 1

\* C6: a flush task holds LOCK from its existence check to the end of its
\* write: having checked, and until it has written or decided to skip, it
\* is the holder.
C6_FlushRunsUnderLock ==
    \A f \in DOMAIN flush :
        flush[f].pc \in {"create", "lock", "locked", "save"} => LOCK = f

\* C7: an error in one episode task neither cancels its siblings nor keeps
\* save_sponsors and save_participants from running for the show once the
\* tasks are drained.
C7_TaskErrorKeepsFlush ==
    (/\ AllDone(tasks)
     /\ \E i \in DOMAIN tasks : tasks[i].status \in {"failed", "raised"}
     /\ main.pc \notin {"episodes", "save_sponsors", "save_participants"}) =>
        main.show - 1 \in hist.savedSponsors \cap hist.savedParticipants

\* C8: no error at episode or show level ends the run: the run ends only by
\* logging ALL DONE, every configured show having had its turn.
C8_RunEndsAllDone ==
    /\ main.pc # "crashed"
    /\ main.pc = "all_done" => main.show = Len(Shows) + 1

(***************************************************************************)
(* The life of an episode task (Spec).                                     *)
(***************************************************************************)
\* A task is built once its Episode record exists (line 220): it is at
\* get_picks, build_participants or the final save_file, or past them.
BuiltPcs == {"avatar", "avatar_write", "participants", "save", "write"}

Skipped(t) == t.pc = "done" /\ t.status \in {"skipped_exists", "skipped_bonus"}

\* Failed: the page answered with an HTTP error, or an exception left the
\* task.
Failed(t) == t.pc = "done" /\ t.status \in {"failed", "raised"}

Written(t) == t.pc = "done" /\ t.status = "written"

NotWritten(t) == t.pc = "done" /\ t.status = "not_written"

TaskStep(i) ==
    \/ EpisodeStart(i) \/ EpisodeSponsors(i) \/ EpisodeUpdate(i)
    \/ EpisodeAvatar(i) \/ EpisodeAvatarWrite(i) \/ EpisodeParticipants(i)
    \/ EpisodeSave(i) \/ EpisodeWrite(i)

\* What one step may do to a task: a finished task stays as it ended, a
\* task ends Written or NotWritten only from the final save_file, and a
\* built task stays built until then.
TaskTransition(t, u) ==
    /\ t.pc = "done" => u = t
    /\ (u.pc = "done" /\ u.status \in {"written", "not_written"} /\ t.pc # "done")
          => t.pc \in {"save", "write"}
    /\ t.pc \in BuiltPcs => (u.pc \in BuiltPcs \/ Written(u) \/ NotWritten(u))

TasksCompleted == \A i \in DOMAIN tasks : tasks[i].pc = "done"

FlushCompleted == \A f \in DOMAIN flush : flush[f].pc = "done"

\* C12: the sponsor and then the participant registry are flushed and
\* cleared after all episode tasks of the show have completed and not
\* before; the shows are processed one after another, no episode task
\* running while another show's tasks or flush are in progress; and both
\* registries are empty when the tasks of a show are submitted.
C12_PhasesInOrder ==
    /\ [](/\ main.pc \in {"save_sponsors", "save_participants"} => TasksCompleted
          /\ flush # NoFlush =>
                /\ main.pc \in {"save_sponsors", "save_participants"}
                /\ main.show \notin hist.savedParticipants
          /\ main.pc = "save_participants" =>
                SPONSORS = EmptyRegistry /\ main.show \in hist.savedSponsors
          /\ main.pc = "fetch" =>
                /\ SPONSORS = EmptyRegistry /\ PARTICIPANTS = EmptyRegistry
                /\ tasks = NoTasks /\ flush = NoFlush
          /\ ~TasksCompleted => (main.pc = "episodes" /\ flush = NoFlush)
          /\ hist.savedParticipants \subseteq hist.savedSponsors
          /\ hist.savedSponsors \subseteq 1..main.show
          /\ hist.savedParticipants \subseteq
                (IF main.pc = "fetch" \/ main.pc = "all_done"
                 THEN 1..(main.show - 1) ELSE 1..main.show))
    /\ [][/\ (main.pc = "episodes" /\ main'.pc # "episodes") =>
                TasksCompleted /\ main'.pc \in {"save_sponsors", "crashed"}
          /\ (main.pc = "save_sponsors" /\ main'.pc # "save_sponsors") =>
                /\ FlushCompleted /\ main'.pc = "save_participants"
                /\ SPONSORS' = EmptyRegistry
                /\ DOMAIN flush' = DOMAIN PARTICIPANTS
          /\ (main.pc = "save_participants" /\ main'.pc # "save_participants") =>
                /\ FlushCompleted /\ main'.pc = "fetch"
                /\ PARTICIPANTS' = EmptyRegistry
                /\ main'.show = main.show + 1
          /\ tasks' # tasks /\ tasks = NoTasks =>
                /\ main.pc = "fetch"
                /\ SPONSORS = EmptyRegistry /\ PARTICIPANTS = EmptyRegistry
          /\ main'.show \in {main.show, main.show + 1}]_vars

\* C12's case: the tasks of the second show run after both registries of
\* the first show, which had entries, were flushed and cleared.
C12_Witness ==
    /\ main.show = 2 /\ main.pc = "episodes" /\ ~TasksCompleted
    /\ 1 \in hist.savedParticipants
    /\ Exists(files, PersonPath("chris.md"))
    /\ SPONSORS # EmptyRegistry

(***************************************************************************)
(* The tie-break of the sponsor registry (SpecSponsors).                   *)
(***************************************************************************)
\* C13: an update to a key whose episode number is lower than or equal to
\* the registered one is dropped and leaves the registry as it was; so of
\* two updates with equal episode numbers the first one seen is kept.
C13_LowerOrEqualIsDropped ==
    [][Len(updates') = Len(updates) + 1 =>
         LET u == updates'[Len(updates')] IN
         (/\ u.key \in DOMAIN SPONSORS
          /\ u.sponsor.episode <= SPONSORS[u.key].episode) =>
              SPONSORS' = SPONSORS]_vars

\* C13's case: a record was registered, and a different record with the
\* same episode number, applied after it, has left it in place.
C13_Witness ==
    \E m, n \in 1..Len(updates) :
        /\ m < n
        /\ updates[m].key = updates[n].key
        /\ updates[m].sponsor.episode = updates[n].sponsor.episode
        /\ updates[m].sponsor # updates[n].sponsor
        /\ updates[m].key \in DOMAIN SPONSORS
        /\ SPONSORS[updates[m].key] = updates[m].sponsor

(***************************************************************************)
(* The participant registry at the flush (Spec).                           *)
(***************************************************************************)
\* The tasks of the show that ran build_participants for filename.
BuildersOf(filename) ==
    { i \in DOMAIN tasks :
        /\ tasks[i].status \in {"written", "not_written"}
        /\ Participants(tasks[i].item) # << >>
        /\ get_canonical_username(Participants(tasks[i].item)[1].name) \o ".md" = filename }

\* C14: the content of PARTICIPANTS at the flush does not depend on the
\* order in which the show's tasks complete, also when they carry different
\* data for one participant: it is what the tasks yield when they run one
\* after another in feed order.
C14_ParticipantsIndependentOfOrder ==
    main.pc = "save_sponsors" =>
        \A filename \in DOMAIN PARTICIPANTS :
            PARTICIPANTS[filename] =
                Participant(Participants(tasks[SetMax(BuildersOf(filename))].item)[1])

(***************************************************************************)
(* The flush onto existing files (SpecFlush).                              *)
(***************************************************************************)
\* C15: the flush of a sponsor onto an existing file that is not exempted
\* writes the file only if the candidate's episode number is strictly
\* greater than the one persisted in it (a file without an episode number
\* counting as lower); otherwise the file stays as it is.
C15_SponsorFileWrittenOnlyIfNewer ==
    [][\A key \in Keys :
          LET p == SponsorPath(key) IN
          (files[p] # NoFile /\ files'[p] # files[p]) =>
              /\ key \in DOMAIN flush
              /\ flush[key].obj.episode > files[p].episode
              /\ files'[p] = SponsorDocument(flush[key].obj)]_vars

\* C15's case: with overwrite on, a candidate whose episode number equals
\* the persisted one was flushed and the file was left as it was.
C15_Witness ==
    \E f \in DOMAIN flush :
        /\ Overwrite_Existing
        /\ f \notin data_dont_override
        /\ flush[f].pc = "done" /\ flush[f].status = "skipped_latest"
        /\ IsSponsor(flush[f].obj)
        /\ files[flush[f].path].episode = flush[f].obj.episode
        /\ files[flush[f].path].src = "old"

\* C16: the flush of a participant onto an existing file that is not
\* exempted changes only the avatar and homepage of the persisted document;
\* type, username and title keep their values.
C16_MergeKeepsOtherFields ==
    [][LET p == PersonPath("chris.md") IN
       (files[p] # NoFile /\ files'[p] # files[p]) =>
           /\ files'[p].kind = "participant"
           /\ files'[p].type = files[p].type
           /\ files'[p].username = files[p].username
           /\ files'[p].title = files[p].title
           /\ files'[p].homepage = PARTICIPANTS["chris.md"].homepage
           /\ files'[p].avatar = PARTICIPANTS["chris.md"].avatar]_vars

\* C16's case: a host with an avatar and a homepage was merged into the
\* file of a guest with another title, which kept its role and title.
C16_Witness ==
    LET doc == files[PersonPath("chris.md")] IN
    /\ "chris.md" \in DOMAIN flush
    /\ flush["chris.md"].status = "written"
    /\ PARTICIPANTS["chris.md"].type = "host"
    /\ PARTICIPANTS["chris.md"].avatar # << >>
    /\ doc.type = "guest"
    /\ doc.title = <<"C", "J">>
    /\ doc.avatar = PARTICIPANTS["chris.md"].avatar
    /\ doc.homepage = PARTICIPANTS["chris.md"].homepage

(***************************************************************************)
(* Exempted files (Spec).                                                  *)
(***************************************************************************)
\* The paths on an exemption list: the registry files named in
\* data_dont_override and the episode files named in their show's
\* dont_override.
ExemptPath(p) ==
    /\ p[1] = "content"
    /\ \/ p[2] \in {"sponsors", "people"} /\ p[3] \in data_dont_override
       \/ /\ p[2] = "show"
          /\ \E s \in 1..Len(Shows) :
                Shows[s].slug = p[3] /\ p[4] \in Shows[s].dont_override

\* C17: an existing file on an exemption list is never modified, whatever
\* the overwrite setting: the flush skips a registry file whose key is in
\* data_dont_override, and build_episode_file does not overwrite an episode
\* file whose name is in the show's dont_override.
C17_ExemptFilesUntouched ==
    [][\A p \in Paths :
          (ExemptPath(p) /\ files[p] # NoFile) => files'[p] = files[p]]_vars

(***************************************************************************)
(* The skip of an existing episode (Spec).                                 *)
(***************************************************************************)
\* C18: when the episode's target file exists and the overwrite policy is
\* off, build_episode_file is a no-op: the task's first step ends it as
\* skipped with the files and both registries unchanged, so it fetches no
\* page, and it takes no step after that.
C18_ExistingEpisodeIsSkipped ==
    [][\A i \in DOMAIN tasks \cap DOMAIN tasks' :
          (main.pc = "episodes" /\ main'.pc = "episodes" /\ tasks'[i] # tasks[i]) =>
              /\ tasks[i].pc # "done"
              /\ (/\ tasks[i].pc = "start"
                  /\ ~Overwrite_Existing
                  /\ files[OutputFile(tasks[i].item)] # NoFile) =>
                     /\ tasks'[i] = Finished(tasks[i], "skipped_exists")
                     /\ UNCHANGED <<files, dirs, SPONSORS, PARTICIPANTS, hist>>]_vars

\* C18's case: with overwrite off, the task of an existing episode file
\* that is not exempted has ended as skipped, the file being as it was,
\* while its sibling registered a sponsor.
C18_Witness ==
    /\ ~Overwrite_Existing
    /\ \E i \in DOMAIN tasks :
          /\ tasks[i].pc = "done" /\ tasks[i].status = "skipped_exists"
          /\ ~ExemptPath(OutputFile(tasks[i].item))
          /\ OutputFile(tasks[i].item) \in DOMAIN OldFiles
          /\ files[OutputFile(tasks[i].item)] = OldFiles[OutputFile(tasks[i].item)]


(***************************************************************************)
(* Episode page failures (Spec).                                           *)
(***************************************************************************)
\* The task ended because the episode page could not be fetched: an HTTP
\* error status, caught at line 173, or another failure of requests.get
\* at line 97.
PageFetchFailed(t) ==
    /\ t.pc = "done"
    /\ \/ t.status = "failed"
       \/ t.status = "raised" /\ t.raisedAt = "parse_sponsors"

\* C19: a failure to fetch an episode's page other than a missing URL
\* scheme aborts only that episode: the episode writes no episode file,
\* and when no task of the show failed anywhere else the run goes on after
\* the drain instead of ending with the exception.
C19_PageFailureAbortsOnlyEpisode ==
    \A i \in DOMAIN tasks :
        PageFetchFailed(tasks[i]) =>
            /\ i \notin WritersOf(OutputFile(tasks[i].item))
            /\ (\A j \in DOMAIN tasks : tasks[j].raisedAt \in {"none", "parse_sponsors"})
                   => main.pc # "crashed"


(***************************************************************************)
(* Scrape isolation (SpecScrape).                                          *)
(***************************************************************************)
\* C20: an exception raised while the sponsor or tag parser runs is caught
\* inside parse_sponsors / parse_tags and counts as no results: the local
\* result is empty, the SPONSORS registry stays what it was on entry, the
\* call does not raise, and when it has returned its list is empty.
C20_StrategyExceptionMeansNoResults ==
    (scrape.ran /\ scrape.strategy.raised) =>
        /\ scrape.sponsors = EmptyRegistry
        /\ scrape.tags = {}
        /\ SPONSORS = scrape.entry
        /\ scrape.outcome # "raised"
        /\ scrape.pc = "done" => (scrape.outcome = "returned" /\ scrape.ret = {})

\* parse_sponsors has returned after its parser raised with sponsors
\* collected that are newer than the registry's.
C20_Witness ==
    /\ scrape.fn = "parse_sponsors"
    /\ scrape.pc = "done"
    /\ scrape.ran /\ scrape.strategy.raised
    /\ SPONSORS # EmptyRegistry
    /\ NewerSponsors(scrape.entry, scrape.strategy.found) # EmptyRegistry


(***************************************************************************)
(* Invalid feeds (Spec).                                                   *)
(***************************************************************************)
\* C21: a feed that fails schema validation aborts that show only: the step
\* that meets it submits no task and starts no flush, leaves the registries
\* and the files as they are and moves main to the fetch of the next show;
\* no flush is ever run for that show.
C21_InvalidFeedSkipsShowOnly ==
    /\ [](\A sh \in hist.invalid :
             sh \notin hist.savedSponsors \cup hist.savedParticipants)
    /\ [][hist'.invalid # hist.invalid =>
             /\ hist'.invalid = hist.invalid \cup {main.show}
             /\ UNCHANGED <<tasks, flush, SPONSORS, PARTICIPANTS, files, dirs>>
             /\ hist'.submitted = hist.submitted
             /\ main' = [pc |-> "fetch", show |-> main.show + 1]]_vars

\* The first show's feed was invalid and the second show has been built
\* and flushed.
C21_Witness ==
    /\ 1 \in hist.invalid
    /\ 2 \in hist.savedSponsors \cap hist.savedParticipants
    /\ main.pc = "all_done"


(***************************************************************************)
(* Bonus items (SpecBonus).                                                *)
(***************************************************************************)
\* C22: a feed item whose episode type is the feed model's bonus value is
\* only logged: its task ends as a skipped bonus without fetching the
\* episode page, and it writes no file.
C22_BonusItemIsSkipped ==
    \A i \in DOMAIN tasks :
        tasks[i].item.itunes_episodeType = "Bonus" =>
            /\ tasks[i].pc \in {"start", "done"}
            /\ tasks[i].pc = "done" => tasks[i].status = "skipped_bonus"
            /\ i \notin WritersOf(OutputFile(tasks[i].item))


(***************************************************************************)
(* Episode numbering (SpecFunctions).                                      *)
(***************************************************************************)
Numbered == call.fn = "episode_number" /\ call.pc = "done"

\* The number a string of decimal digits writes.
RECURSIVE DecimalValue(_)
DecimalValue(str) ==
    IF str = << >> THEN 0
    ELSE 10 * DecimalValue(SubSeq(str, 1, Len(str) - 1))
         + (CHOOSE v \in 0..9 : Digit[v + 1] = str[Len(str)])

\* seg is what follows the last "/" of link (all of it when it has none).
IsTrailingSegment(seg, link) ==
    /\ \E k \in 0..Len(link) :
          /\ seg = SubSeq(link, k + 1, Len(link))
          /\ k = 0 \/ link[k] = "/"
    /\ \A k \in 1..Len(seg) : seg[k] # "/"

\* The runs of digits of a title that a colon follows, as <<first, last>>.
ColonRuns(title) ==
    { r \in (1..Len(title)) \X (1..Len(title)) :
        /\ r[1] <= r[2]
        /\ \A k \in r[1]..r[2] : IsDigit(title[k])
        /\ r[1] = 1 \/ ~IsDigit(title[r[1] - 1])
        /\ r[2] < Len(title) /\ title[r[2] + 1] = ":" }

FirstColonRun(title) ==
    CHOOSE r \in ColonRuns(title) : \A q \in ColonRuns(title) : r[1] <= q[1]

\* The result is the link's trailing segment, unpadded.
OnFallback(item, ret) ==
    /\ IsTrailingSegment(ret.episode_number_padded, item.link)
    /\ ret.episode_number = ret.episode_number_padded

\* The result is the number n and its zero-padded form.
OnNumber(n, ret) ==
    /\ Len(ret.episode_number_padded) >= 4
    /\ IsNumeric(ret.episode_number_padded)
    /\ DecimalValue(ret.episode_number_padded) = n
    /\ ret.episode_number = n

NumericPath(item) ==
    IF item.podcast_episode # << >>
    THEN IsNumeric(item.podcast_episode[1].episode)
    ELSE IsNumeric(parse_episode_number(item.title))

\* The file key on the fallback path: the link's trailing segment as it
\* is, which holds no "/".
FallbackKey(item, ret) ==
    /\ IsTrailingSegment(ret.episode_number_padded, item.link)
    /\ ret.stem = ret.episode_number_padded

\* C24, as stated: a numeric episode number has a padded form of exactly
\* four digits; on the fallback path the raw link segment is the file key.
C24_PaddedFormHasFourDigits ==
    Numbered =>
        IF NumericPath(call.item)
        THEN /\ IsNumeric(call.ret.episode_number_padded)
             /\ Len(call.ret.episode_number_padded) = 4
        ELSE FallbackKey(call.item, call.ret)

\* C24, amended: a numeric episode number has a padded form of at least
\* four digits that writes the number: exactly four, filled with zeros
\* from the left, below 10000, and the number's own digits from there on;
\* on the fallback path the raw link segment is the file key.
C24_PaddedFormHasAtLeastFourDigits ==
    Numbered =>
        LET padded == call.ret.episode_number_padded IN
        IF NumericPath(call.item)
        THEN /\ IsNumeric(padded)
             /\ Len(padded) >= 4
             /\ DecimalValue(padded) = call.ret.episode_number
             /\ call.ret.episode_number < 10000 => Len(padded) = 4
             /\ Len(padded) > 4 => padded[1] # "0"
             /\ call.ret.stem = padded
        ELSE FallbackKey(call.item, call.ret)

\* An episode numbered 10000 by its podcast:episode element has been
\* padded.
C24_Witness ==
    /\ Numbered
    /\ NumericPath(call.item)
    /\ call.ret.episode_number = 10000
    /\ call.ret.episode_number_padded = <<"1", "0", "0", "0", "0">>


(***************************************************************************)
(* Canonical usernames (SpecFunctions).                                    *)
(***************************************************************************)
\* The names of the model lower-cased, with a hyphen for every space.
LoweredAndHyphenated(name) ==
    CASE name = <<"C", "h", "r", "i", "s">>      -> "chris"
      [] name = <<"C", " ", "J">>                -> "c-j"
      [] name = <<"W", "e", "s", " ", "B">>      -> "wes-b"

C26_SubmitsFirstEntriesUpToLimit ==
    (call.fn = "submit" /\ call.pc = "done") =>
        LET n == Len(call.items)
            count == IF call.LATEST_ONLY /\ call.LATEST_ONLY_EP_LIMIT < n
                     THEN call.LATEST_ONLY_EP_LIMIT ELSE n
        IN  /\ Len(call.ret) = count
            /\ \A k \in 1..count : call.ret[k] = call.items[k]

\* The limit has cut a feed that is longer than it.
C26_Witness ==
    /\ call.fn = "submit" /\ call.pc = "done"
    /\ call.LATEST_ONLY
    /\ call.LATEST_ONLY_EP_LIMIT \in 1..(Len(call.items) - 1)
    /\ call.items[1] # call.items[2]
    /\ Len(call.ret) = call.LATEST_ONLY_EP_LIMIT


(***************************************************************************)
(* Additive runs (Spec).                                                   *)
(***************************************************************************)
\* C28: with Settings.Overwrite_Existing off, an episode, sponsor,
\* participant or avatar file that an earlier run has left keeps its
\* content through every step of the run.  (What a run writes differs from
\* what the earlier run left, so a file holds the earlier content exactly
\* when it existed at the start and has not been written since.)
C28_RunIsAdditive ==
    [][~Overwrite_Existing =>
          \A p \in DOMAIN OldFiles :
              files[p] = OldFiles[p] => files'[p] = OldFiles[p]]_vars

\* A flush task has ended without writing a sponsor that is newer than the
\* one in the file an earlier run left.
C28_Witness ==
    /\ ~Overwrite_Existing
    /\ \E f \in DOMAIN flush :
          /\ flush[f].pc = "done" /\ flush[f].status = "not_written"
          /\ IsSponsor(flush[f].obj)
          /\ flush[f].path \in DOMAIN OldFiles
          /\ files[flush[f].path] = OldFiles[flush[f].path]
          /\ flush[f].obj.episode > OldFiles[flush[f].path].episode


(***************************************************************************)
(* Sponsors without an episode number (SpecSponsors).                      *)
(***************************************************************************)
\* C29: a sponsor mention whose episode number is 0 or missing is never
\* added to SPONSORS, whether or not its key has a record, and every record
\* of SPONSORS has an episode number of at least 1.
C29_UnnumberedMentionIsNeverAdded ==
    /\ [](\A key \in DOMAIN SPONSORS : SPONSORS[key].episode >= 1)
    /\ [][(/\ Len(updates') = Len(updates) + 1
           /\ updates'[Len(updates')].sponsor.episode \in {0, NoEpisode})
             => SPONSORS' = SPONSORS]_vars

\* Mentions with episode 0 and with no episode have arrived for a key
\* without a record, and the registry is still empty.
C29_Witness ==
    /\ Len(updates) >= 2
    /\ updates[1].sponsor.episode = 0
    /\ updates[2].sponsor.episode = NoEpisode
    /\ SPONSORS = EmptyRegistry

=============================================================================
